---------------------------- MODULE Spec2Model ----------------------------
(***************************************************************************)
(* Model of the cortex-rag backend (backend/main.py, backend/ingest.py):   *)
(* the HTTP handlers of the FastAPI app, the ingestion functions they      *)
(* call, the Chroma collections, the URL -> context registry file, the     *)
(* process-wide chat-engine cache and the shared scratch clone directory.  *)
(*                                                                         *)
(* Text values (context ids, URLs) are sequences of one-character strings. *)
(* Every handler is an `async def` run by one event loop: the statements   *)
(* between two awaits run without interleaving.  `running` is the handler  *)
(* that currently holds the loop (NoProc when the loop is free).           *)
(*                                                                         *)
(* Calls that leave the process can fail at any time: the clone, the       *)
(* reader, the embedding inside from_documents, rmtree on the scratch      *)
(* directory and the write of the registry file.  The local Chroma client  *)
(* fails only as documented: delete_collection of a missing collection     *)
(* (ignored by the code) and creation of a collection with an empty name.  *)
(***************************************************************************)
EXTENDS Integers, Sequences, FiniteSets, TLC

VARIABLES
    collections,     \* chroma_db: collection name -> set of stored documents
    registry,        \* repo_registry.json: [st, data], data: url -> context id
    active_engines,  \* main.active_engines: context id -> cached session
    scratch,         \* TEMP_CLONE_DIR: [st, owner]
    running,         \* the handler holding the event loop, or NoProc
    pc,              \* per handler slot: position in its code
    req,             \* per handler slot: the request being served
    docs,            \* per handler slot: `documents` loaded by the reader
    err,             \* per handler slot: the exception raised, or "none"
    resp,            \* per handler slot: the response produced
    warn,            \* per handler slot: which cleanups printed the warning
    opCount,         \* number of document-loading requests accepted so far
    repo_name,       \* sanitizer run: the input of line 165
    safe_name,       \* sanitizer run: the result of line 165
    resafe_name      \* sanitizer run: line 165 applied to its own result

vars == <<collections, registry, active_engines, scratch, running, pc, req,
          docs, err, resp, warn, opCount, repo_name, safe_name, resafe_name>>

(***************************************************************************)
(* Bounds of the model.                                                    *)
(***************************************************************************)
MaxOps == 2          \* document-loading requests per behaviour
DocsPerLoad == 1     \* documents returned by one reader.load_data()
MaxNameLen == 3      \* longest repo_name given to the sanitizer run

\* Two handler slots: while one handler holds the loop the other is idle or
\* suspended at an await (or is a scheduled background task).
Slots == <<"h1", "h2">>
Procs == {Slots[i] : i \in DOMAIN Slots}
NoProc == "none"

(***************************************************************************)
(* Text helpers.                                                           *)
(***************************************************************************)
RECURSIVE SeqsUpTo(_, _)
SeqsUpTo(S, n) ==
    IF n = 0 THEN {<< >>}
    ELSE LET shorter == SeqsUpTo(S, n - 1)
         IN  shorter \cup {Append(s, c) : s \in {t \in shorter : Len(t) = n - 1}, c \in S}

EmptyMap == [x \in {} |-> << >>]
Put(f, k, v) == [x \in (DOMAIN f) \cup {k} |-> IF x = k THEN v ELSE f[x]]
Drop(f, k) == [x \in (DOMAIN f) \ {k} |-> f[x]]


(***************************************************************************)
(* ingest_endpoint, line 165: the sanitizer of repo_name.                  *)
(*   safe_name = "".join(c for c in repo_name if c.isalnum() or c in "_-") *)
(***************************************************************************)
NameChars == {"a", "1", "_", "-", ".", " "}
Unset == <<"unset">>

IsAlnum(c) == c \in {"a", "1"}

\* faulty variant: "." is kept as well
KeepCharDotted(c) == IsAlnum(c) \/ c \in {"_", "-", "."}

\* c.isalnum() or c in "_-"
KeepChar(c) == IsAlnum(c) \/ c \in {"_", "-"}

RECURSIVE Sanitize(_)
Sanitize(s) ==
    IF s = << >> THEN << >>
    ELSE (IF KeepChar(Head(s)) THEN <<Head(s)>> ELSE << >>) \o Sanitize(Tail(s))

(***************************************************************************)
(* URLs and the registry lookup (main.py, get_context_by_url).             *)
(***************************************************************************)
DotGit == <<".", "g", "i", "t">>
RepoR == <<"r">>
\* "r", "r.git" and "r.gitr" (a URL with ".git" inside it, as in x.github.io)
Urls == {RepoR, RepoR \o DotGit, RepoR \o DotGit \o RepoR}
\* repo_url values sent to POST /ingest: clone URLs
IngestUrls == {RepoR \o DotGit, RepoR \o DotGit \o RepoR}
\* repository.html_url values of push events: GitHub sends them without ".git"
HtmlUrls == {RepoR, RepoR \o DotGit \o RepoR}

StartsWithDotGit(s) == Len(s) >= Len(DotGit) /\ SubSeq(s, 1, Len(DotGit)) = DotGit

\* url.replace(".git", ""): every occurrence is removed, scanning left to right
RECURSIVE ReplaceDotGit(_)
ReplaceDotGit(s) ==
    IF s = << >> THEN << >>
    ELSE IF StartsWithDotGit(s)
         THEN ReplaceDotGit(SubSeq(s, Len(DotGit) + 1, Len(s)))
         ELSE <<Head(s)>> \o ReplaceDotGit(Tail(s))

NotFound == [found |-> FALSE, ctx |-> << >>]
Found(c) == [found |-> TRUE, ctx |-> c]

\* lines 110-113 on the parsed table `data`
LookupIn(data, url) ==
    IF url \in DOMAIN data THEN Found(data[url])
    ELSE IF (url \o DotGit) \in DOMAIN data THEN Found(data[url \o DotGit])
    ELSE IF ReplaceDotGit(url) \in DOMAIN data THEN Found(data[ReplaceDotGit(url)])
    ELSE NotFound

RegAbsent == [st |-> "absent", data |-> EmptyMap]
RegCorrupt == [st |-> "corrupt", data |-> EmptyMap]
RegOk(d) == [st |-> "ok", data |-> d]

\* get_context_by_url on the registry file; defined only when json.load succeeds
GetContextByUrl(reg, url) ==
    IF reg.st = "ok" THEN LookupIn(reg.data, url) ELSE NotFound

(***************************************************************************)
(* The scratch directory and force_delete_temp_dir (ingest.py).            *)
(***************************************************************************)
DirAbsent == [st |-> "absent", owner |-> NoProc]
DirEmpty == [st |-> "empty", owner |-> NoProc]
DirCloned(p) == [st |-> "cloned", owner |-> p]
DirDirty == [st |-> "dirty", owner |-> NoProc]

\* The outcomes of force_delete_temp_dir: the directory is removed, or, when
\* rmtree raised and the exception was swallowed with a warning (lines 45-46),
\* it is still there.
ForceDeleteTempDir(dir) ==
    IF dir.st = "absent" THEN {[dir |-> dir, warned |-> FALSE]}
    ELSE {[dir |-> DirAbsent, warned |-> FALSE],
          [dir |-> IF dir.st = "empty" THEN DirEmpty ELSE DirDirty, warned |-> TRUE]}

\* git refuses to clone into a directory that exists and is not empty
CloneDestinationFree(dir) == dir.st \in {"absent", "empty"}

(***************************************************************************)
(* Collections (chromadb.PersistentClient) and documents.                  *)
(***************************************************************************)
\* repo_name values sent to POST /ingest: "a", "1." and "."
RepoNames == {<<"a">>, <<"1", ".">>, <<".">>}
\* context_id values sent to /ingest/file and /context/{id}/files: "a" and
\* "a.a" (a dot inside a name is accepted by Chroma)
CtxInputs == {<<"a">>, <<"a", ".", "a">>}
\* context_id values sent to /chat
ChatInputs == {<<"a">>}

\* the documents reader.load_data() returns for request number op
DocsOf(op) == {<<op, i>> : i \in 1..DocsPerLoad}

\* what a failed VectorStoreIndex.from_documents may already have stored
PartialDocsOf(op) == {{<<op, i>> : i \in 1..j} : j \in 0..(DocsPerLoad - 1)}

\* Chroma refuses to create a collection with an empty name
ChromaRejects(name) == name = << >>

\* db.get_or_create_collection(name), ingest.py line 51
GetOrCreateCollection(cols, name) ==
    IF name \in DOMAIN cols THEN cols ELSE Put(cols, name, {})

\* db.delete_collection(name) inside try/except: pass, ingest.py lines 75-78
DeleteCollection(cols, name) == Drop(cols, name)

\* A cached session whose collection has been modified since it was built.
Touch(engines, name) ==
    [c \in DOMAIN engines |-> IF c = name THEN "stale" ELSE engines[c]]

\* `if name in active_engines: del active_engines[name]`
Evict(engines, name) == Drop(engines, name)

(***************************************************************************)
(* Handler slots.                                                          *)
(***************************************************************************)
NoUrl == << >>
NoRepository == <<"no-repository">>
IdleReq == [kind |-> "none", url |-> NoUrl, name |-> << >>, op |-> 0]

\* get_context_files runs in a worker thread: its read is one step and its
\* return touches no shared state, so the return is taken as the very next step.
NoThread == \A q \in Procs : pc[q] # "files_done"

LoopFree == running = NoProc /\ NoThread

\* a new request is served in the first slot that is free
FreeSlot(p) ==
    \E i \in DOMAIN Slots :
        /\ Slots[i] = p
        /\ pc[p] = "idle"
        /\ \A j \in 1..(i - 1) : pc[Slots[j]] # "idle"
Holds(p) == running = p /\ NoThread

sanVars == <<repo_name, safe_name, resafe_name>>
storeVars == <<collections, registry, active_engines, scratch>>

Init ==
    /\ collections = EmptyMap
    /\ registry = RegAbsent
    /\ active_engines = EmptyMap
    /\ scratch = DirEmpty          \* os.makedirs(TEMP_CLONE_DIR), ingest.py line 28
    /\ running = NoProc
    /\ pc = [p \in Procs |-> "idle"]
    /\ req = [p \in Procs |-> IdleReq]
    /\ docs = [p \in Procs |-> {}]
    /\ err = [p \in Procs |-> "none"]
    /\ resp = [p \in Procs |-> "none"]
    /\ warn = [p \in Procs |-> {}]
    /\ opCount = 0
    /\ repo_name = << >>
    /\ safe_name = Unset
    /\ resafe_name = Unset

(***************************************************************************)
(* POST /ingest: ingest_endpoint, lines 163-176.                           *)
(***************************************************************************)
StartIngest(p) ==
    \E u \in IngestUrls, rn \in RepoNames :
        /\ LoopFree
        /\ FreeSlot(p)
        /\ opCount < MaxOps
        /\ running' = p
        /\ opCount' = opCount + 1
        /\ req' = [req EXCEPT ![p] = [kind |-> "ingest", url |-> u,
                                      name |-> Sanitize(rn), op |-> opCount + 1]]
        /\ pc' = [pc EXCEPT ![p] = "ir_pre_clean"]
        /\ docs' = [docs EXCEPT ![p] = {}]
        /\ err' = [err EXCEPT ![p] = "none"]
        /\ resp' = [resp EXCEPT ![p] = "none"]
        /\ UNCHANGED <<storeVars, warn, sanVars>>

(***************************************************************************)
(* ingest_repository, ingest.py lines 54-91.                               *)
(***************************************************************************)
\* faulty variant: the existing collection is deleted before the clone
IrPreCleanDeleting(p) ==
    /\ Holds(p)
    /\ pc[p] = "ir_pre_clean"
    /\ \E out \in ForceDeleteTempDir(scratch) :
          /\ scratch' = out.dir
          /\ warn' = [warn EXCEPT ![p] = IF out.warned THEN @ \cup {"pre"} ELSE @]
    /\ collections' = DeleteCollection(collections, req[p].name)
    /\ pc' = [pc EXCEPT ![p] = "ir_clone"]
    /\ UNCHANGED <<registry, active_engines, running, req, docs, err, resp,
                   opCount, sanVars>>

\* line 56: clean up before cloning
IrPreClean(p) ==
    /\ Holds(p)
    /\ pc[p] = "ir_pre_clean"
    /\ \E out \in ForceDeleteTempDir(scratch) :
          /\ scratch' = out.dir
          /\ warn' = [warn EXCEPT ![p] = IF out.warned THEN @ \cup {"pre"} ELSE @]
    /\ pc' = [pc EXCEPT ![p] = "ir_clone"]
    /\ UNCHANGED <<collections, registry, active_engines, running, req, docs,
                   err, resp, opCount, sanVars>>

\* line 60: git.Repo.clone_from(repo_url, TEMP_CLONE_DIR)
IrClone(p) ==
    /\ Holds(p)
    /\ pc[p] = "ir_clone"
    /\ \/ /\ CloneDestinationFree(scratch)
          /\ scratch' = DirCloned(p)
          /\ pc' = [pc EXCEPT ![p] = "ir_load"]
          /\ err' = err
       \/ /\ CloneDestinationFree(scratch)      \* the remote cannot be cloned
          /\ scratch' = scratch
          /\ pc' = [pc EXCEPT ![p] = "ir_finally"]
          /\ err' = [err EXCEPT ![p] = "clone"]
       \/ /\ ~CloneDestinationFree(scratch)     \* destination is not empty
          /\ scratch' = scratch
          /\ pc' = [pc EXCEPT ![p] = "ir_finally"]
          /\ err' = [err EXCEPT ![p] = "clone_destination"]
    /\ UNCHANGED <<collections, registry, active_engines, running, req, docs,
                   resp, opCount, warn, sanVars>>

\* lines 62-72: SimpleDirectoryReader(...).load_data()
IrLoad(p) ==
    /\ Holds(p)
    /\ pc[p] = "ir_load"
    /\ \/ /\ scratch.st = "cloned"
          /\ docs' = [docs EXCEPT ![p] = DocsOf(req[p].op)]
          /\ pc' = [pc EXCEPT ![p] = "ir_delete"]
          /\ err' = err
       \/ /\ docs' = docs                       \* no matching file, or no root
          /\ pc' = [pc EXCEPT ![p] = "ir_finally"]
          /\ err' = [err EXCEPT ![p] = "load"]
    /\ UNCHANGED <<storeVars, running, req, resp, opCount, warn, sanVars>>

\* faulty variant: the existing collection is not deleted
IrDeleteSkipped(p) ==
    /\ Holds(p)
    /\ pc[p] = "ir_delete"
    /\ pc' = [pc EXCEPT ![p] = "ir_create"]
    /\ UNCHANGED <<storeVars, running, req, docs, err, resp, opCount, warn,
                   sanVars>>

\* lines 74-78: delete the existing collection; the exception raised when it
\* does not exist is ignored
IrDelete(p) ==
    /\ Holds(p)
    /\ pc[p] = "ir_delete"
    /\ collections' = DeleteCollection(collections, req[p].name)
    /\ active_engines' = IF req[p].name \in DOMAIN collections
                         THEN Touch(active_engines, req[p].name)
                         ELSE active_engines
    /\ pc' = [pc EXCEPT ![p] = "ir_create"]
    /\ UNCHANGED <<registry, scratch, running, req, docs, err, resp, opCount,
                   warn, sanVars>>

\* lines 80-81: get_chroma_vector_store(collection_name)
IrCreate(p) ==
    /\ Holds(p)
    /\ pc[p] = "ir_create"
    /\ \/ /\ ~ChromaRejects(req[p].name)
          /\ collections' = GetOrCreateCollection(collections, req[p].name)
          /\ pc' = [pc EXCEPT ![p] = "ir_embed"]
          /\ err' = err
       \/ /\ ChromaRejects(req[p].name)
          /\ collections' = collections
          /\ pc' = [pc EXCEPT ![p] = "ir_finally"]
          /\ err' = [err EXCEPT ![p] = "store"]
    /\ UNCHANGED <<registry, active_engines, scratch, running, req, docs, resp,
                   opCount, warn, sanVars>>

\* line 83: VectorStoreIndex.from_documents(documents, storage_context)
IrEmbed(p) ==
    /\ Holds(p)
    /\ pc[p] = "ir_embed"
    /\ \/ /\ req[p].name \in DOMAIN collections
          /\ collections' = [collections EXCEPT
                               ![req[p].name] = @ \cup docs[p]]
          /\ err' = err
       \/ /\ req[p].name \in DOMAIN collections   \* the embedding call fails
          /\ \E part \in PartialDocsOf(req[p].op) :
                collections' = [collections EXCEPT ![req[p].name] = @ \cup part]
          /\ err' = [err EXCEPT ![p] = "embed"]
    /\ active_engines' = IF collections' # collections
                         THEN Touch(active_engines, req[p].name)
                         ELSE active_engines
    /\ pc' = [pc EXCEPT ![p] = "ir_finally"]
    /\ UNCHANGED <<registry, scratch, running, req, docs, resp, opCount, warn,
                   sanVars>>

\* faulty variant: the directory is cleaned only when nothing was raised
IrFinallyOnSuccessOnly(p) ==
    /\ Holds(p)
    /\ pc[p] = "ir_finally"
    /\ \E out \in (IF err[p] = "none" THEN ForceDeleteTempDir(scratch)
                    ELSE {[dir |-> scratch, warned |-> FALSE]}) :
          /\ scratch' = out.dir
          /\ warn' = [warn EXCEPT ![p] = IF out.warned THEN @ \cup {"post"} ELSE @]
    /\ pc' = [pc EXCEPT ![p] = "ir_end"]
    /\ UNCHANGED <<collections, registry, active_engines, running, req, docs,
                   err, resp, opCount, sanVars>>

\* lines 86-91: finally: force_delete_temp_dir(); then return, or re-raise
IrFinally(p) ==
    /\ Holds(p)
    /\ pc[p] = "ir_finally"
    /\ \E out \in ForceDeleteTempDir(scratch) :
          /\ scratch' = out.dir
          /\ warn' = [warn EXCEPT ![p] = IF out.warned THEN @ \cup {"post"} ELSE @]
    /\ pc' = [pc EXCEPT ![p] = "ir_end"]
    /\ UNCHANGED <<collections, registry, active_engines, running, req, docs,
                   err, resp, opCount, sanVars>>

(***************************************************************************)
(* ingest_endpoint after ingest_repository: lines 169-176.                 *)
(***************************************************************************)
\* faulty variant: the table is written afresh instead of merged
SaveRegistryDataFresh(reg, url, ctx) == Put(EmptyMap, url, ctx)

\* save_registry(url, context_id), lines 90-102: an absent or unreadable file
\* is read as {}; the write may fail after open(..., "w") truncated the file.
SaveRegistryData(reg, url, ctx) ==
    Put(IF reg.st = "ok" THEN reg.data ELSE EmptyMap, url, ctx)

SaveRegistry(p) ==
    /\ Holds(p)
    /\ pc[p] = "ir_end"
    /\ req[p].kind = "ingest"
    /\ err[p] = "none"
    /\ \/ /\ registry' = RegOk(SaveRegistryData(registry, req[p].url, req[p].name))
          /\ pc' = [pc EXCEPT ![p] = "evict"]
          /\ UNCHANGED <<err, resp>>
       \/ /\ registry' = RegCorrupt                \* json.dump / write fails
          /\ pc' = [pc EXCEPT ![p] = "done"]
          /\ err' = [err EXCEPT ![p] = "registry"]
          /\ resp' = [resp EXCEPT ![p] = "error500"]
    /\ UNCHANGED <<collections, active_engines, scratch, running, req, docs,
                   opCount, warn, sanVars>>

\* lines 172-174
IngestEvict(p) ==
    /\ Holds(p)
    /\ pc[p] = "evict"
    /\ req[p].kind = "ingest"
    /\ active_engines' = Evict(active_engines, req[p].name)
    /\ resp' = [resp EXCEPT ![p] = "success"]
    /\ pc' = [pc EXCEPT ![p] = "done"]
    /\ UNCHANGED <<collections, registry, scratch, running, req, docs, err,
                   opCount, warn, sanVars>>

\* faulty variant: the registry is written although the ingestion raised
IngestExceptSaving(p) ==
    /\ Holds(p)
    /\ pc[p] = "ir_end"
    /\ req[p].kind = "ingest"
    /\ err[p] # "none"
    /\ registry' = RegOk(SaveRegistryData(registry, req[p].url, req[p].name))
    /\ resp' = [resp EXCEPT ![p] = "error500"]
    /\ pc' = [pc EXCEPT ![p] = "done"]
    /\ UNCHANGED <<collections, active_engines, scratch, running, req, docs,
                   err, opCount, warn, sanVars>>

\* lines 175-176: except Exception -> HTTPException(500)
IngestExcept(p) ==
    /\ Holds(p)
    /\ pc[p] = "ir_end"
    /\ req[p].kind = "ingest"
    /\ err[p] # "none"
    /\ resp' = [resp EXCEPT ![p] = "error500"]
    /\ pc' = [pc EXCEPT ![p] = "done"]
    /\ UNCHANGED <<storeVars, running, req, docs, err, opCount, warn, sanVars>>

(***************************************************************************)
(* reingest_background after ingest_repository: lines 120-125.             *)
(***************************************************************************)
\* faulty variant: a failed re-ingest is scheduled again
ReingestEndRetrying(p) ==
    /\ Holds(p)
    /\ pc[p] = "ir_end"
    /\ req[p].kind = "reingest"
    /\ \/ /\ err[p] = "none"
          /\ active_engines' = Evict(active_engines, req[p].name)
          /\ resp' = [resp EXCEPT ![p] = "bg_ok"]
          /\ pc' = [pc EXCEPT ![p] = "done"]
       \/ /\ err[p] # "none"
          /\ active_engines' = active_engines
          /\ resp' = [resp EXCEPT ![p] = "bg_failed"]
          /\ pc' = [pc EXCEPT ![p] = "bg_pending"]
    /\ UNCHANGED <<collections, registry, scratch, running, req, docs, err,
                   opCount, warn, sanVars>>

ReingestEnd(p) ==
    /\ Holds(p)
    /\ pc[p] = "ir_end"
    /\ req[p].kind = "reingest"
    /\ \/ /\ err[p] = "none"
          /\ active_engines' = Evict(active_engines, req[p].name)
          /\ resp' = [resp EXCEPT ![p] = "bg_ok"]
       \/ /\ err[p] # "none"                      \* logged, not re-raised
          /\ active_engines' = active_engines
          /\ resp' = [resp EXCEPT ![p] = "bg_failed"]
    /\ pc' = [pc EXCEPT ![p] = "done"]
    /\ UNCHANGED <<collections, registry, scratch, running, req, docs, err,
                   opCount, warn, sanVars>>

(***************************************************************************)
(* POST /ingest/file: upload_file_endpoint (lines 178-193) and             *)
(* ingest_single_file (ingest.py lines 93-114).                            *)
(***************************************************************************)
\* lines 180-183: the handler starts and awaits file.read()
StartUpload(p) ==
    \E ctx \in CtxInputs \cup {<< >>} :
        /\ LoopFree
        /\ FreeSlot(p)
        /\ opCount < MaxOps
        /\ opCount' = opCount + 1
        /\ req' = [req EXCEPT ![p] = [kind |-> "upload", url |-> NoUrl,
                                      name |-> ctx, op |-> opCount + 1]]
        /\ pc' = [pc EXCEPT ![p] = "up_await_read"]
        /\ docs' = [docs EXCEPT ![p] = {}]
        /\ err' = [err EXCEPT ![p] = "none"]
        /\ resp' = [resp EXCEPT ![p] = "none"]
        /\ UNCHANGED <<storeVars, running, warn, sanVars>>

\* the await of line 183 completes; lines 96-97: reader.load_data()
UploadLoad(p) ==
    /\ LoopFree
    /\ pc[p] = "up_await_read"
    /\ running' = p
    /\ \/ /\ docs' = [docs EXCEPT ![p] = DocsOf(req[p].op)]
          /\ pc' = [pc EXCEPT ![p] = "up_create"]
          /\ err' = err
       \/ /\ docs' = docs                          \* the file cannot be read
          /\ pc' = [pc EXCEPT ![p] = "up_end"]
          /\ err' = [err EXCEPT ![p] = "load"]
    /\ UNCHANGED <<storeVars, req, resp, opCount, warn, sanVars>>

\* faulty variant: the collection is replaced by an empty one
UploadCreateReplacing(p) ==
    /\ Holds(p)
    /\ pc[p] = "up_create"
    /\ \/ /\ ~ChromaRejects(req[p].name)
          /\ collections' = Put(collections, req[p].name, {})
          /\ pc' = [pc EXCEPT ![p] = "up_embed"]
          /\ err' = err
       \/ /\ ChromaRejects(req[p].name)
          /\ collections' = collections
          /\ pc' = [pc EXCEPT ![p] = "up_end"]
          /\ err' = [err EXCEPT ![p] = "store"]
    /\ UNCHANGED <<registry, active_engines, scratch, running, req, docs, resp,
                   opCount, warn, sanVars>>

\* ingest.py line 106: get_chroma_vector_store(collection_name)
UploadCreate(p) ==
    /\ Holds(p)
    /\ pc[p] = "up_create"
    /\ \/ /\ ~ChromaRejects(req[p].name)
          /\ collections' = GetOrCreateCollection(collections, req[p].name)
          /\ pc' = [pc EXCEPT ![p] = "up_embed"]
          /\ err' = err
       \/ /\ ChromaRejects(req[p].name)
          /\ collections' = collections
          /\ pc' = [pc EXCEPT ![p] = "up_end"]
          /\ err' = [err EXCEPT ![p] = "store"]
    /\ UNCHANGED <<registry, active_engines, scratch, running, req, docs, resp,
                   opCount, warn, sanVars>>

\* ingest.py line 109: VectorStoreIndex.from_documents(...)
UploadEmbed(p) ==
    /\ Holds(p)
    /\ pc[p] = "up_embed"
    /\ \/ /\ req[p].name \in DOMAIN collections
          /\ collections' = [collections EXCEPT
                               ![req[p].name] = @ \cup docs[p]]
          /\ err' = err
       \/ /\ req[p].name \in DOMAIN collections   \* the embedding call fails
          /\ \E part \in PartialDocsOf(req[p].op) :
                collections' = [collections EXCEPT ![req[p].name] = @ \cup part]
          /\ err' = [err EXCEPT ![p] = "embed"]
    /\ active_engines' = IF collections' # collections
                         THEN Touch(active_engines, req[p].name)
                         ELSE active_engines
    /\ pc' = [pc EXCEPT ![p] = "up_end"]
    /\ UNCHANGED <<registry, scratch, running, req, docs, resp, opCount, warn,
                   sanVars>>

\* faulty variant: the upload answers "success" although ingest_single_file raised
UploadEndSwallowing(p) ==
    /\ Holds(p)
    /\ pc[p] = "up_end"
    /\ active_engines' = IF err[p] = "none"
                         THEN Evict(active_engines, req[p].name)
                         ELSE active_engines
    /\ resp' = [resp EXCEPT ![p] = "success"]
    /\ pc' = [pc EXCEPT ![p] = "done"]
    /\ UNCHANGED <<collections, registry, scratch, running, req, docs, err,
                   opCount, warn, sanVars>>

\* main.py lines 187-191
UploadEnd(p) ==
    /\ Holds(p)
    /\ pc[p] = "up_end"
    /\ \/ /\ err[p] = "none"
          /\ active_engines' = Evict(active_engines, req[p].name)
          /\ resp' = [resp EXCEPT ![p] = "success"]
       \/ /\ err[p] # "none"
          /\ active_engines' = active_engines
          /\ resp' = [resp EXCEPT ![p] = "error500"]
    /\ pc' = [pc EXCEPT ![p] = "done"]
    /\ UNCHANGED <<collections, registry, scratch, running, req, docs, err,
                   opCount, warn, sanVars>>

(***************************************************************************)
(* POST /chat: chat_endpoint (lines 195-204), get_chat_engine (64-88).     *)
(***************************************************************************)
StartChat(p) ==
    \E ctx \in ChatInputs :
        /\ LoopFree
        /\ FreeSlot(p)
        /\ running' = p
        /\ req' = [req EXCEPT ![p] = [kind |-> "chat", url |-> NoUrl,
                                      name |-> ctx, op |-> 0]]
        /\ pc' = [pc EXCEPT ![p] = "chat_get"]
        /\ docs' = [docs EXCEPT ![p] = {}]
        /\ err' = [err EXCEPT ![p] = "none"]
        /\ resp' = [resp EXCEPT ![p] = "none"]
        /\ UNCHANGED <<storeVars, opCount, warn, sanVars>>

\* faulty variant: a session is cached and used whether or not the
\* collection could be opened
GetChatEngineAlwaysCaching(p) ==
    /\ Holds(p)
    /\ pc[p] = "chat_get"
    /\ active_engines' = IF req[p].name \in DOMAIN active_engines
                         THEN active_engines
                         ELSE Put(active_engines, req[p].name, "fresh")
    /\ pc' = [pc EXCEPT ![p] = "chat_await"]
    /\ running' = NoProc
    /\ resp' = resp
    /\ UNCHANGED <<collections, registry, scratch, req, docs, err, opCount,
                   warn, sanVars>>

\* faulty variant: a session is opened anew on every call, cached or not
GetChatEngineRebuilding(p) ==
    /\ Holds(p)
    /\ pc[p] = "chat_get"
    /\ \/ /\ req[p].name \in DOMAIN collections
          /\ active_engines' = Put(active_engines, req[p].name, "fresh")
          /\ pc' = [pc EXCEPT ![p] = "chat_await"]
          /\ running' = NoProc
          /\ resp' = resp
       \/ /\ req[p].name \notin DOMAIN collections
          /\ active_engines' = active_engines
          /\ pc' = [pc EXCEPT ![p] = "done"]
          /\ running' = running
          /\ resp' = [resp EXCEPT ![p] = "notfound404"]
    /\ UNCHANGED <<collections, registry, scratch, req, docs, err, opCount,
                   warn, sanVars>>

\* line 197: engine = get_chat_engine(context_id); line 198-199: 404 on None;
\* otherwise the handler awaits engine.achat (line 201)
GetChatEngine(p) ==
    /\ Holds(p)
    /\ pc[p] = "chat_get"
    /\ \/ /\ req[p].name \in DOMAIN active_engines          \* lines 66-67
          /\ active_engines' = active_engines
          /\ pc' = [pc EXCEPT ![p] = "chat_await"]
          /\ running' = NoProc
          /\ resp' = resp
       \/ /\ req[p].name \notin DOMAIN active_engines       \* lines 74-85
          /\ req[p].name \in DOMAIN collections
          /\ active_engines' = Put(active_engines, req[p].name, "fresh")
          /\ pc' = [pc EXCEPT ![p] = "chat_await"]
          /\ running' = NoProc
          /\ resp' = resp
       \/ /\ req[p].name \notin DOMAIN active_engines       \* lines 86-88
          /\ req[p].name \notin DOMAIN collections
          /\ active_engines' = active_engines
          /\ pc' = [pc EXCEPT ![p] = "done"]
          /\ running' = running
          /\ resp' = [resp EXCEPT ![p] = "notfound404"]
    /\ UNCHANGED <<collections, registry, scratch, req, docs, err, opCount,
                   warn, sanVars>>

\* lines 201-204: the awaited achat returns a reply or raises
AchatDone(p) ==
    /\ LoopFree
    /\ pc[p] = "chat_await"
    /\ running' = p
    /\ \E r \in {"reply", "chat500"} : resp' = [resp EXCEPT ![p] = r]
    /\ pc' = [pc EXCEPT ![p] = "done"]
    /\ UNCHANGED <<storeVars, req, docs, err, opCount, warn, sanVars>>

(***************************************************************************)
(* POST /webhook/github: github_webhook, lines 206-230.                    *)
(***************************************************************************)
StartWebhook(p) ==
    \E payload \in HtmlUrls \cup {NoRepository} :
        /\ LoopFree
        /\ FreeSlot(p)
        /\ opCount < MaxOps
        /\ running' = p
        /\ req' = [req EXCEPT ![p] = [kind |-> "webhook", url |-> payload,
                                      name |-> << >>, op |-> 0]]
        /\ pc' = [pc EXCEPT ![p] = "wh_handle"]
        /\ docs' = [docs EXCEPT ![p] = {}]
        /\ err' = [err EXCEPT ![p] = "none"]
        /\ resp' = [resp EXCEPT ![p] = "none"]
        /\ UNCHANGED <<storeVars, opCount, warn, sanVars>>

WebhookHandle(p) ==
    /\ Holds(p)
    /\ pc[p] = "wh_handle"
    /\ \/ /\ req[p].url = NoRepository                       \* lines 214-215
          /\ resp' = [resp EXCEPT ![p] = "ignored"]
          /\ UNCHANGED <<req, opCount>>
       \/ /\ req[p].url # NoRepository                       \* json.load raises
          /\ registry.st = "corrupt"
          /\ resp' = [resp EXCEPT ![p] = "wh_error"]
          /\ UNCHANGED <<req, opCount>>
       \/ /\ req[p].url # NoRepository                       \* lines 222-223
          /\ registry.st # "corrupt"
          /\ LET r == GetContextByUrl(registry, req[p].url)
             IN  ~r.found \/ r.ctx = << >>
          /\ resp' = [resp EXCEPT ![p] = "ignored"]
          /\ UNCHANGED <<req, opCount>>
       \/ /\ req[p].url # NoRepository                       \* lines 226-228
          /\ registry.st # "corrupt"
          /\ LET r == GetContextByUrl(registry, req[p].url)
             IN  /\ r.found
                 /\ r.ctx # << >>
                 /\ req' = [req EXCEPT ![p].name = r.ctx, ![p].op = opCount + 1]
          /\ opCount' = opCount + 1
          /\ resp' = [resp EXCEPT ![p] = "accepted"]
    /\ pc' = [pc EXCEPT ![p] = "done"]
    /\ UNCHANGED <<storeVars, running, docs, err, warn, sanVars>>

\* faulty variant: the background task starts while another handler holds the
\* event loop
BackgroundStartUnserialized(p) ==
    /\ NoThread
    /\ pc[p] = "bg_pending"
    /\ running' = p
    /\ pc' = [pc EXCEPT ![p] = "ir_pre_clean"]
    /\ UNCHANGED <<storeVars, req, docs, err, resp, opCount, warn, sanVars>>

\* the scheduled reingest_background(url, context) starts, lines 115-119
BackgroundStart(p) ==
    /\ LoopFree
    /\ pc[p] = "bg_pending"
    /\ running' = p
    /\ pc' = [pc EXCEPT ![p] = "ir_pre_clean"]
    /\ UNCHANGED <<storeVars, req, docs, err, resp, opCount, warn, sanVars>>

(***************************************************************************)
(* GET /context/{id}/files: get_context_files, lines 146-161.  A plain     *)
(* `def` endpoint: it runs in the thread pool, beside the event loop.      *)
(***************************************************************************)
\* faulty variant: the collection is opened with get_or_create_collection
GetContextFilesCreating(p) ==
    \E ctx \in CtxInputs :
        /\ FreeSlot(p)
        /\ NoThread
        /\ req' = [req EXCEPT ![p] = [kind |-> "files", url |-> NoUrl,
                                      name |-> ctx, op |-> 0]]
        /\ collections' = GetOrCreateCollection(collections, ctx)
        /\ docs' = [docs EXCEPT ![p] = collections'[ctx]]
        /\ resp' = [resp EXCEPT ![p] = "files"]
        /\ err' = [err EXCEPT ![p] = "none"]
        /\ pc' = [pc EXCEPT ![p] = "files_done"]
        /\ UNCHANGED <<registry, active_engines, scratch, running, opCount,
                       warn, sanVars>>

GetContextFiles(p) ==
    \E ctx \in CtxInputs :
        /\ FreeSlot(p)
        /\ NoThread
        /\ req' = [req EXCEPT ![p] = [kind |-> "files", url |-> NoUrl,
                                      name |-> ctx, op |-> 0]]
        /\ docs' = [docs EXCEPT ![p] = IF ctx \in DOMAIN collections
                                       THEN collections[ctx] ELSE {}]
        /\ resp' = [resp EXCEPT ![p] = "files"]
        /\ err' = [err EXCEPT ![p] = "none"]
        /\ pc' = [pc EXCEPT ![p] = "files_done"]
        /\ UNCHANGED <<storeVars, running, opCount, warn, sanVars>>

FilesReturn(p) ==
    /\ pc[p] = "files_done"
    /\ pc' = [pc EXCEPT ![p] = "idle"]
    /\ req' = [req EXCEPT ![p] = IdleReq]
    /\ docs' = [docs EXCEPT ![p] = {}]
    /\ resp' = [resp EXCEPT ![p] = "none"]
    /\ UNCHANGED <<storeVars, running, err, opCount, warn, sanVars>>

(***************************************************************************)
(* The handler returns its response and gives the loop back.  An accepted  *)
(* webhook leaves its background task scheduled.                           *)
(***************************************************************************)
Respond(p) ==
    /\ Holds(p)
    /\ pc[p] = "done"
    /\ running' = NoProc
    /\ docs' = [docs EXCEPT ![p] = {}]
    /\ err' = [err EXCEPT ![p] = "none"]
    /\ resp' = [resp EXCEPT ![p] = "none"]
    /\ warn' = [warn EXCEPT ![p] = {}]
    /\ \/ /\ resp[p] = "accepted"
          /\ pc' = [pc EXCEPT ![p] = "bg_pending"]
          /\ req' = [req EXCEPT ![p].kind = "reingest"]
       \/ /\ resp[p] # "accepted"
          /\ pc' = [pc EXCEPT ![p] = "idle"]
          /\ req' = [req EXCEPT ![p] = IdleReq]
    /\ UNCHANGED <<storeVars, opCount, sanVars>>

Next ==
    \E p \in Procs :
        \/ StartIngest(p)
        \/ IrPreClean(p)
        \/ IrClone(p)
        \/ IrLoad(p)
        \/ IrDelete(p)
        \/ IrCreate(p)
        \/ IrEmbed(p)
        \/ IrFinally(p)
        \/ SaveRegistry(p)
        \/ IngestEvict(p)
        \/ IngestExcept(p)
        \/ ReingestEnd(p)
        \/ StartUpload(p)
        \/ UploadLoad(p)
        \/ UploadCreate(p)
        \/ UploadEmbed(p)
        \/ UploadEnd(p)
        \/ StartChat(p)
        \/ GetChatEngine(p)
        \/ AchatDone(p)
        \/ StartWebhook(p)
        \/ WebhookHandle(p)
        \/ BackgroundStart(p)
        \/ GetContextFiles(p)
        \/ FilesReturn(p)
        \/ Respond(p)

Spec == Init /\ [][Next]_vars

(***************************************************************************)
(* The server started again on the files an earlier run left: the          *)
(* collections under CHROMA_DB_PATH and repo_registry.json persist, the    *)
(* session cache does not.  The earlier run ingested "r.git" as "1".       *)
(***************************************************************************)
PersistedDocs == DocsOf(0)

InitRestarted ==
    /\ collections = Put(EmptyMap, <<"1">>, PersistedDocs)
    /\ registry = RegOk(Put(EmptyMap, RepoR \o DotGit, <<"1">>))
    /\ active_engines = EmptyMap
    /\ scratch = DirEmpty
    /\ running = NoProc
    /\ pc = [p \in Procs |-> "idle"]
    /\ req = [p \in Procs |-> IdleReq]
    /\ docs = [p \in Procs |-> {}]
    /\ err = [p \in Procs |-> "none"]
    /\ resp = [p \in Procs |-> "none"]
    /\ warn = [p \in Procs |-> {}]
    /\ opCount = 0
    /\ repo_name = << >>
    /\ safe_name = Unset
    /\ resafe_name = Unset

SpecRestarted == InitRestarted /\ [][Next]_vars

(***************************************************************************)
(* The sanitizer of line 165 run on every repo_name up to MaxNameLen.      *)
(***************************************************************************)
mainVars == <<collections, registry, active_engines, scratch, running, pc,
              req, docs, err, resp, warn, opCount>>

InitSanitize ==
    /\ collections = EmptyMap
    /\ registry = RegAbsent
    /\ active_engines = EmptyMap
    /\ scratch = DirEmpty
    /\ running = NoProc
    /\ pc = [p \in Procs |-> "idle"]
    /\ req = [p \in Procs |-> IdleReq]
    /\ docs = [p \in Procs |-> {}]
    /\ err = [p \in Procs |-> "none"]
    /\ resp = [p \in Procs |-> "none"]
    /\ warn = [p \in Procs |-> {}]
    /\ opCount = 0
    /\ repo_name \in SeqsUpTo(NameChars, MaxNameLen)
    /\ safe_name = Unset
    /\ resafe_name = Unset

SanitizeName ==
    /\ safe_name = Unset
    /\ safe_name' = Sanitize(repo_name)
    /\ UNCHANGED <<mainVars, repo_name, resafe_name>>

SanitizeAgain ==
    /\ safe_name # Unset
    /\ resafe_name = Unset
    /\ resafe_name' = Sanitize(safe_name)
    /\ UNCHANGED <<mainVars, repo_name, safe_name>>

NextSanitize == SanitizeName \/ SanitizeAgain

SpecSanitize == InitSanitize /\ [][NextSanitize]_vars

(***************************************************************************)
(* Properties.                                                             *)
(***************************************************************************)
IngestSucceeded(p) ==
    /\ pc[p] = "done"
    /\ \/ req[p].kind = "ingest" /\ resp[p] = "success"
       \/ req[p].kind = "reingest" /\ resp[p] = "bg_ok"

\* C1: when a repository ingest (POST /ingest or a webhook re-ingest) ends
\* successfully, the context has its collection and that collection holds
\* exactly the documents this ingest loaded, none of an earlier ingest; after
\* a successful POST /ingest the registry maps the URL to the context id,
\* whatever it held before.
C1_ReingestReplacesCollection ==
    \A p \in Procs :
        IngestSucceeded(p) =>
            /\ req[p].name \in DOMAIN collections
            /\ collections[req[p].name] = DocsOf(req[p].op)
            /\ req[p].kind = "ingest" =>
                  /\ registry.st = "ok"
                  /\ req[p].url \in DOMAIN registry.data
                  /\ registry.data[req[p].url] = req[p].name

\* A webhook re-ingest of a repository ingested before has succeeded: the
\* collection holds the second load only and the registry still resolves the URL.
C1_Witness ==
    \E p \in Procs :
        /\ IngestSucceeded(p)
        /\ req[p].kind = "reingest"
        /\ req[p].op = 2
        /\ collections[req[p].name] = DocsOf(2)
        /\ GetContextByUrl(registry, req[p].url) = Found(req[p].name)

\* C2: when an ingest, re-ingest or upload ends, on every path, no cached
\* session of its context predates a modification of the collection.
C2_SessionEvictedOnEveryPath ==
    \A p \in Procs :
        (pc[p] = "done" /\ req[p].kind \in {"ingest", "reingest", "upload"}) =>
            ~(/\ req[p].name \in DOMAIN active_engines
              /\ active_engines[req[p].name] = "stale")

\* C3: the registry changes only in the save_registry step of a POST /ingest
\* whose ingest_repository call returned without an exception.
C3_RegistryOnlyAfterSuccessfulIngest ==
    [][registry' # registry =>
         \E p \in Procs :
            /\ running = p
            /\ req[p].kind = "ingest"
            /\ pc[p] = "ir_end"
            /\ err[p] = "none"]_vars

\* A POST /ingest failed at the embedding, after an earlier one had written
\* the registry: the failed request's URL was not saved.
C3_Witness ==
    \E p \in Procs :
        /\ pc[p] = "done"
        /\ req[p].kind = "ingest"
        /\ err[p] = "embed"
        /\ registry.st = "ok"
        /\ req[p].url \notin DOMAIN registry.data

\* url with a trailing ".git" stripped
StripDotGit(url) ==
    IF Len(url) >= Len(DotGit)
       /\ SubSeq(url, Len(url) - Len(DotGit) + 1, Len(url)) = DotGit
    THEN SubSeq(url, 1, Len(url) - Len(DotGit))
    ELSE url

UrlForms(url) == {url, url \o DotGit, StripDotGit(url)}

\* C4: when exactly one of the forms u, u + ".git", u without ".git" is a key
\* of the registry, mapped to c, the lookup of each of the three forms gives c
\* (stated for the URLs u that do not themselves end in ".git").
C4_LookupAgreesOnAllForms ==
    registry.st = "ok" =>
        \A u \in {v \in Urls : StripDotGit(v) = v} :
            LET saved == UrlForms(u) \cap DOMAIN registry.data
            IN  Cardinality(saved) = 1 =>
                    \A f \in UrlForms(u) :
                        \A k \in saved :
                            GetContextByUrl(registry, f) = Found(registry.data[k])

UploadStep(p) ==
    /\ pc'[p] # pc[p]
    /\ req[p].kind = "upload" \/ req'[p].kind = "upload"

\* C5: no step of a file upload removes a collection or a document of one, and
\* an upload that answers success leaves the collection of its context
\* existing, holding the uploaded documents.
C5_UploadOnlyAdds ==
    [][\A p \in Procs :
          UploadStep(p) =>
             /\ \A c \in DOMAIN collections :
                   /\ c \in DOMAIN collections'
                   /\ collections[c] \subseteq collections'[c]
             /\ (pc'[p] = "done" /\ resp'[p] = "success") =>
                   /\ req[p].name \in DOMAIN collections'
                   /\ DocsOf(req[p].op) \subseteq collections'[req[p].name]]_vars

\* A successful upload into a collection that already held other documents.
C5_Witness ==
    \E p \in Procs :
        /\ pc[p] = "done"
        /\ req[p].kind = "upload"
        /\ resp[p] = "success"
        /\ DocsOf(req[p].op) \subseteq collections[req[p].name]
        /\ collections[req[p].name] # DocsOf(req[p].op)

\* C6: a push event whose repository.html_url has no registry entry (the file
\* absent or unreadable included) is answered "ignored".
C6_UntrackedWebhookIgnored ==
    \A p \in Procs :
        (/\ pc[p] = "done"
         /\ req[p].kind = "webhook"
         /\ req[p].url # NoRepository
         /\ ~GetContextByUrl(registry, req[p].url).found)
        => resp[p] = "ignored"

ChatLeavesGet(p) ==
    /\ req[p].kind = "chat"
    /\ pc[p] = "chat_get"
    /\ pc'[p] # "chat_get"

\* C7: a chat for a context whose collection does not exist when
\* get_chat_engine runs ends with the 404 outcome, awaits no reply and leaves
\* active_engines as it was.
C7_ChatUnknownContextIs404 ==
    [][\A p \in Procs :
          (ChatLeavesGet(p) /\ req[p].name \notin DOMAIN collections) =>
             /\ pc'[p] = "done"
             /\ resp'[p] = "notfound404"
             /\ active_engines' = active_engines]_vars

\* A chat got 404 for a missing context while another context has its
\* collection and documents.
C7_Witness ==
    \E p \in Procs :
        /\ pc[p] = "done"
        /\ req[p].kind = "chat"
        /\ resp[p] = "notfound404"
        /\ req[p].name \notin DOMAIN collections
        /\ \E c \in DOMAIN collections : collections[c] # {}

C9_CleanupFailureHarmless ==
    \A p \in Procs :
        "pre" \in warn[p] => err[p] # "clone_destination"

ClaimSafeChar(c) == c \in {"a", "1", "_", "-"}

\* C10: the sanitized name is repo_name without the characters that are not
\* alphanumeric, "_" or "-", in the same order, and sanitizing it again
\* changes nothing.
C10_SanitizeIsFilter ==
    /\ safe_name # Unset => safe_name = SelectSeq(repo_name, ClaimSafeChar)
    /\ resafe_name # Unset => resafe_name = safe_name

\* A name that lost some characters and kept others, sanitized twice.
C10_Witness ==
    /\ resafe_name # Unset
    /\ Len(safe_name) >= 2
    /\ Len(safe_name) < Len(repo_name)

\* C11: a save_registry(url, c) that completes leaves a registry in which a
\* lookup of url returns c and every other URL of the table read before is
\* mapped as before; and when POST /ingest answers "success", a lookup of its
\* URL returns its context id, which is a sanitized repo_name.
C11_SaveRegistryMerges ==
    [][\A p \in Procs :
          /\ (pc[p] = "ir_end" /\ pc'[p] = "evict") =>
                /\ GetContextByUrl(registry', req[p].url) = Found(req[p].name)
                /\ registry.st = "ok" =>
                      \A u \in DOMAIN registry.data \ {req[p].url} :
                          /\ u \in DOMAIN registry'.data
                          /\ registry'.data[u] = registry.data[u]
          /\ (req[p].kind = "ingest" /\ resp'[p] = "success") =>
                /\ GetContextByUrl(registry', req[p].url) = Found(req[p].name)
                /\ \E rn \in RepoNames : req[p].name = Sanitize(rn)]_vars

\* save_registry has just added a second URL, under another context id, to a
\* table that held one: both are mapped.
C11_Witness ==
    \E p \in Procs :
        /\ pc[p] = "evict"
        /\ registry.st = "ok"
        /\ \E u \in DOMAIN registry.data :
              /\ u # req[p].url
              /\ registry.data[u] # req[p].name
        /\ registry.data[req[p].url] = req[p].name

\* C12: a webhook whose html_url the registry resolves to c answers "accepted"
\* with context c, having changed nothing in the stores; a background
\* re-ingest is pending only as the continuation of such an answer, with the
\* webhook's url and c, and it starts only from there, so the answer precedes
\* it and there is one re-ingest per accepted webhook; a re-ingest that
\* raised ends as a logged failure of the task, never as an HTTP answer, and
\* the task then ends without being scheduled again.
C12_WebhookSchedulesOneReingest ==
    [][\A p \in Procs :
          /\ ( /\ pc[p] = "wh_handle"
               /\ pc'[p] # "wh_handle"
               /\ req[p].url # NoRepository
               /\ registry.st # "corrupt"
               /\ GetContextByUrl(registry, req[p].url).found ) =>
                  /\ resp'[p] = "accepted"
                  /\ req'[p].name = GetContextByUrl(registry, req[p].url).ctx
                  /\ req'[p].url = req[p].url
                  /\ storeVars' = storeVars
          /\ (pc'[p] = "bg_pending" /\ pc[p] # "bg_pending") =>
                  /\ pc[p] = "done"
                  /\ req[p].kind = "webhook"
                  /\ resp[p] = "accepted"
                  /\ req'[p].kind = "reingest"
                  /\ req'[p].url = req[p].url
                  /\ req'[p].name = req[p].name
          /\ (req'[p].kind = "reingest" /\ pc'[p] = "ir_pre_clean"
                                        /\ pc[p] # "ir_pre_clean") =>
                  /\ pc[p] = "bg_pending"
                  /\ req'[p] = req[p]
          /\ (req[p].kind = "reingest" /\ pc[p] = "ir_end"
                                       /\ pc'[p] # "ir_end") =>
                  /\ pc'[p] = "done"
                  /\ resp'[p] = IF err[p] = "none" THEN "bg_ok" ELSE "bg_failed"
          /\ (req[p].kind = "reingest" /\ pc[p] = "done"
                                       /\ pc'[p] # "done") =>
                  /\ pc'[p] = "idle"
                  /\ opCount' = opCount]_vars

\* The re-ingest scheduled by an accepted webhook has failed at the embedding,
\* after it had deleted the collection: the failure is the task's outcome.
C12_Witness ==
    \E p \in Procs :
        /\ pc[p] = "done"
        /\ req[p].kind = "reingest"
        /\ resp[p] = "bg_failed"
        /\ err[p] = "embed"
        /\ GetContextByUrl(registry, req[p].url) = Found(req[p].name)

\* C13: once the clone, the load, the creation of the collection or the
\* embedding has failed in an ingestion, the ingestion performs no further
\* step but its cleanup, and POST /ingest and POST /ingest/file answer 500
\* exactly when an error was raised; they answer "success" only when the
\* collection exists and holds every document that was loaded.
C13_IngestErrorsAnswer500 ==
    \A p \in Procs :
        req[p].kind \in {"ingest", "upload", "reingest"} =>
            /\ err[p] # "none" => pc[p] \in {"ir_finally", "ir_end", "up_end", "done"}
            /\ (pc[p] = "done" /\ req[p].kind # "reingest") =>
                  /\ resp[p] \in {"success", "error500"}
                  /\ resp[p] = "error500" <=> err[p] # "none"
                  /\ resp[p] = "success" =>
                        /\ docs[p] # {}
                        /\ req[p].name \in DOMAIN collections
                        /\ docs[p] \subseteq collections[req[p].name]

\* POST /ingest/file answers 500 after the embedding call failed.
C13_Witness ==
    \E p \in Procs :
        /\ pc[p] = "done"
        /\ req[p].kind = "upload"
        /\ err[p] = "embed"
        /\ resp[p] = "error500"

\* C14: GET /context/{id}/files answers with a list and never an error, the
\* empty list when the id has no collection, and neither the call nor its
\* return changes the collections, the registry, the cached sessions or the
\* scratch directory.
C14_FilesOfMissingContextIsEmpty ==
    [][\A p \in Procs :
          ((pc[p] = "files_done" \/ pc'[p] = "files_done") /\ pc'[p] # pc[p]) =>
              /\ storeVars' = storeVars
              /\ pc'[p] = "files_done" =>
                    /\ resp'[p] = "files"
                    /\ err'[p] = "none"
                    /\ req'[p].name \notin DOMAIN collections => docs'[p] = {}]_vars

\* The files of a context without collection were listed while another
\* context had its collection and documents: the list is empty.
C14_Witness ==
    \E p \in Procs :
        /\ pc[p] = "files_done"
        /\ req[p].name \notin DOMAIN collections
        /\ docs[p] = {}
        /\ \E c \in DOMAIN collections : collections[c] # {}

InIngestRepository(p) ==
    pc[p] \in {"ir_pre_clean", "ir_clone", "ir_load", "ir_delete", "ir_create",
               "ir_embed", "ir_finally"}

\* C15: whenever one ingestion has cloned into the scratch directory and has
\* not finished loading while a second ingestion is in flight (a re-ingest
\* scheduled by an accepted webhook), the second can start, so that its
\* force_delete_temp_dir can remove the directory under the first.
C15_ConcurrentIngestsCanRace ==
    \A p, q \in Procs :
        (p # q /\ pc[p] = "ir_load" /\ pc[q] = "bg_pending") =>
            ENABLED BackgroundStart(q)

\* C15 as amended: at most one handler is inside ingest_repository, it holds
\* the event loop from its first force_delete_temp_dir to its last, and the
\* directory it cloned into is still its clone when it loads: a second
\* ingestion in flight waits until the first has returned.
C15_IngestionsSerialized ==
    \A p \in Procs :
        /\ InIngestRepository(p) =>
              /\ running = p
              /\ \A q \in Procs \ {p} : ~InIngestRepository(q)
        /\ pc[p] = "ir_load" => scratch = DirCloned(p)

\* A POST /ingest has cloned and is about to load while the re-ingest of an
\* accepted webhook is scheduled: two ingestions are in flight, and the scratch
\* directory holds the first one's clone.
C15_Witness ==
    \E p, q \in Procs :
        /\ p # q
        /\ pc[p] = "ir_load"
        /\ req[p].kind = "ingest"
        /\ pc[q] = "bg_pending"
        /\ scratch = DirCloned(p)

\* C16: in every reachable state every existing collection name consists only
\* of alphanumeric characters, "_" and "-".
C16_CollectionNamesSanitized ==
    \A c \in DOMAIN collections : c = SelectSeq(c, ClaimSafeChar)

\* C17: get_chat_engine(c) returns the cached session of c unchanged when
\* there is one; otherwise it opens and caches a session exactly when the
\* collection of c exists, and the chat is then not answered 404; a 404 leaves
\* the cache as it was.  A context enters the cache only this way and leaves
\* it only in the eviction of an ingest, re-ingest or upload for that context
\* that raised no error.
C17_OnlyOpenedSessionsCached ==
    [][/\ \A p \in Procs :
             ChatLeavesGet(p) =>
                /\ req[p].name \in DOMAIN active_engines =>
                      /\ active_engines' = active_engines
                      /\ pc'[p] = "chat_await"
                /\ ( /\ req[p].name \notin DOMAIN active_engines
                     /\ req[p].name \in DOMAIN collections ) =>
                      /\ active_engines' = Put(active_engines, req[p].name, "fresh")
                      /\ pc'[p] = "chat_await"
                /\ pc'[p] # "chat_await" =>
                      /\ resp'[p] = "notfound404"
                      /\ active_engines' = active_engines
       /\ \A c \in DOMAIN active_engines' \ DOMAIN active_engines :
             \E p \in Procs :
                /\ ChatLeavesGet(p)
                /\ req[p].name = c
                /\ c \in DOMAIN collections
       /\ \A c \in DOMAIN active_engines \ DOMAIN active_engines' :
             \E p \in Procs :
                /\ running = p
                /\ req[p].name = c
                /\ req[p].kind \in {"ingest", "reingest", "upload"}
                /\ pc[p] \in {"evict", "ir_end", "up_end"}
                /\ err[p] = "none"]_vars

\* Two chats for the same context await their replies: the second was given
\* the session the first had cached.
C17_Witness ==
    \E p, q \in Procs :
        /\ p # q
        /\ pc[p] = "chat_await"
        /\ pc[q] = "chat_await"
        /\ req[p].name = req[q].name
        /\ req[p].name \in DOMAIN active_engines

BeforeDelete(p) ==
    /\ req[p].kind \in {"ingest", "reingest"}
    /\ \/ pc[p] \in {"ir_pre_clean", "ir_clone", "ir_load"}
       \/ err[p] \in {"clone", "clone_destination", "load"}

\* C18: from the start of an ingestion until its clone and its load have both
\* succeeded, and until the response when one of them failed, no step changes
\* the collections, the registry or the cached sessions; a collection
\* disappears only in the delete step of an ingestion that holds its clone and
\* its loaded documents.
C18_DeleteOnlyAfterCloneAndLoad ==
    [][/\ \A p \in Procs :
             (running = p /\ BeforeDelete(p)) =>
                <<collections, registry, active_engines>>' =
                    <<collections, registry, active_engines>>
       /\ \A c \in DOMAIN collections \ DOMAIN collections' :
             \E p \in Procs :
                /\ running = p
                /\ pc[p] = "ir_delete"
                /\ req[p].name = c
                /\ err[p] = "none"
                /\ docs[p] = DocsOf(req[p].op)
                /\ scratch = DirCloned(p)]_vars

\* A POST /ingest for a context that is ingested, registered and has a cached
\* session failed at the load: collection, registry entry and session are
\* still there, the session still current.
C18_Witness ==
    \E p \in Procs :
        /\ pc[p] = "done"
        /\ req[p].kind = "ingest"
        /\ err[p] = "load"
        /\ req[p].name \in DOMAIN collections
        /\ collections[req[p].name] = DocsOf(1)
        /\ req[p].name \in DOMAIN active_engines
        /\ active_engines[req[p].name] = "fresh"
        /\ GetContextByUrl(registry, req[p].url) = Found(req[p].name)
=============================================================================
